---- MODULE Spec2Model ----
(***************************************************************************)
(* A model of the CatatanOnline note widget                                *)
(* (src/src/assets/Aplikasi/CatatanOnline.jsx): the useLocalStorage and    *)
(* useFetch hooks, the component's five state hooks with React's lane      *)
(* based update queues, the debounce and pulse-reset timers, and the       *)
(* localStorage slot with its JSON text.                                   *)
(*                                                                         *)
(* Texts are sequences of UTF-16 code units, so that trimming, escaping    *)
(* and parsing are computed code unit by code unit, and the values of the  *)
(* hooks are JavaScript values as JSON.parse can produce them. Numbers are *)
(* doubles, held by their shortest decimal digits, and tiny ones round as  *)
(* doubles do (to a multiple of 2^-1074, or to 0). The digits have to fit  *)
(* the integers of TLC: a number of more than nine digits (such as today's *)
(* 13-digit Date.now(), or any number near the largest double) is beyond   *)
(* it, and the clock of the model counts from StartClock.                  *)
(***************************************************************************)
EXTENDS Integers, Sequences, FiniteSets, TLC

\* ------------------------------------------------------------------ bounds
\* The millisecond clock runs from StartClock to StartClock + MaxTicks.
MaxTicks == 1
\* Mutations (setValue calls) per page session.
MaxMutations == 2
\* The add handler is not offered once the list holds this many notes.
MaxNotes == 2
\* No hook queue holds more than this many updates waiting for a render.
MaxQueue == 2
\* Timer callbacks whose update waits for its render, over all hooks: the
\* render is scheduled at once, so few callbacks run before it.
MaxDeferred == 1

\* -------------------------------------------------------------- code units
\* A text is a sequence of UTF-16 code units (numbers 0..65535), as a
\* JavaScript string is; so is the JSON text of the storage slot.
Quote == 34
Backslash == 92
Space == 32
Tab == 9

\* Digit d as a code unit, and back.
DigitChar(d) == 48 + d
IsDigit(c) == c >= 48 /\ c <= 57
DigitValue(c) == c - 48

\* WhiteSpace and LineTerminator of ECMAScript, which String.prototype.trim
\* strips: TAB, LF, VT, FF, CR, SP, NBSP, U+1680, U+2000..U+200A, U+2028,
\* U+2029, U+202F, U+205F, U+3000 and U+FEFF.
IsTrimSpace(c) ==
    \/ c \in {9, 10, 11, 12, 13, 32, 160, 5760, 8232, 8233, 8239, 8287,
              12288, 65279}
    \/ (c >= 8192 /\ c <= 8202)

\* String.prototype.trim on a text.
RECURSIVE trimStart(_)
trimStart(s) ==
    IF s # <<>> /\ IsTrimSpace(Head(s)) THEN trimStart(Tail(s)) ELSE s

RECURSIVE trimEnd(_)
trimEnd(s) ==
    IF s # <<>> /\ IsTrimSpace(s[Len(s)])
    THEN trimEnd(SubSeq(s, 1, Len(s) - 1))
    ELSE s

\* A trim that strips nothing.
trimNothing(s) == s

trim(s) == trimEnd(trimStart(s))

\* ------------------------------------------------------- JavaScript values
\* A value is a record with a tag t: "undefined", "null", "bool" (b), "num"
\* (n, e: the number n * 10^e, with e <= 0 and n not a multiple of 10 unless
\* e = 0), "str" (s: a text), "arr" (a: the elements) or "obj" (o: the own
\* properties [k, v] in property order). An array or object also has r, its
\* identity: the objects JSON.parse creates have distinct r > 0, and r is 0
\* for the objects the handlers create, which nothing compares by identity.
Undefined == [t |-> "undefined"]
Null == [t |-> "null"]
Bool(b) == [t |-> "bool", b |-> b]
Num(n) == [t |-> "num", n |-> n, e |-> 0]
Str(s) == [t |-> "str", s |-> s]
Arr(a) == [t |-> "arr", a |-> a, r |-> 0]
Obj(o) == [t |-> "obj", o |-> o, r |-> 0]

\* The property names the component uses: "id" and "text".
IdKey == <<105, 100>>
TextKey == <<116, 101, 120, 116>>

\* ------------------------------------------------------ numbers as doubles
\* A number value is a double. Every decimal n * 10^e of the model whose
\* size is 1e-308 or more is a double of its own (n has at most ten digits,
\* a double holds fifteen), and n, e are its shortest digits. Below 1e-308
\* the doubles are the multiples of 2^-1074, and JSON.parse takes the nearest
\* one. That needs natural numbers beyond the integers of TLC: such a number
\* is the sequence of its decimal digits, most significant first, with
\* leading zeros allowed.
RECURSIVE Digits(_)
Digits(n) == IF n < 10 THEN <<n>> ELSE Append(Digits(n \div 10), n % 10)

RECURSIVE FromDigits(_)
FromDigits(d) ==
    IF d = <<>> THEN 0
    ELSE FromDigits(SubSeq(d, 1, Len(d) - 1)) * 10 + d[Len(d)]

\* The digits f as a sequence value (TLC would otherwise compute a digit anew
\* whenever it is read).
AsSequence(f) == SubSeq(f, 1, Len(f))

\* a with leading zeros, len digits long.
Pad(a, len) ==
    AsSequence([i \in 1..len |->
                   IF i <= len - Len(a) THEN 0 ELSE a[i - (len - Len(a))]])

\* Whether the digits to the right of position i carry into it when a and b
\* (of one length) are added: the nearest position whose digit sum is not 9
\* decides.
CarryInto(a, b, i) ==
    LET j == CHOOSE j \in (i + 1)..(Len(a) + 1) :
                 /\ j = Len(a) + 1 \/ a[j] + b[j] # 9
                 /\ \A m \in (i + 1)..(j - 1) : a[m] + b[m] = 9
    IN  j <= Len(a) /\ a[j] + b[j] >= 10

\* a + b for a and b of one length, in that length (the callers leave room).
BigAdd(a, b) ==
    AsSequence([i \in 1..Len(a) |->
                   (a[i] + b[i] + (IF CarryInto(a, b, i) THEN 1 ELSE 0)) % 10])

\* The sum of the digit products of a * b that fall on position p of the
\* product, from digit j of b on.
RECURSIVE Column(_, _, _, _)
Column(a, b, p, j) ==
    IF j > Len(b) THEN 0
    ELSE (IF p - j + 1 \in 1..Len(a) THEN a[p - j + 1] * b[j] ELSE 0)
         + Column(a, b, p, j + 1)

Columns(a, b) ==
    AsSequence([p \in 1..(Len(a) + Len(b)) |->
                   IF p = 1 THEN 0 ELSE Column(a, b, p - 1, 1)])

\* One decimal digit of every column sum (unit is 10^t), moved t positions
\* to the left, where it counts.
Part(raw, unit, t) ==
    AsSequence([p \in 1..Len(raw) |->
                   IF p + t <= Len(raw) THEN (raw[p + t] \div unit) % 10
                   ELSE 0])

Parts(raw) ==
    BigAdd(BigAdd(Part(raw, 1, 0), Part(raw, 10, 1)),
           BigAdd(Part(raw, 100, 2), Part(raw, 1000, 3)))

\* a * b in Len(a) + Len(b) digits, for b of at most 123 digits (a column
\* sum then has four digits).
BigMul(a, b) == Parts(Columns(a, b))

\* a <= b for a and b of one length.
BigLessEq(a, b) ==
    a = b \/ \E i \in 1..Len(a) : a[i] < b[i] /\ \A j \in 1..(i - 1) : a[j] = b[j]

\* 2^1074: a double below 1e-308 is a multiple of 2^-1074, so the number of
\* such steps in x is x * 2^1074.
Pow2 ==
    <<
    2, 0, 2, 4, 0, 2, 2, 5, 3, 3, 0, 7, 3, 1, 0, 6, 1, 8, 3, 5, 2, 4, 9,
    5, 3, 4, 6, 7, 1, 8, 9, 1, 7, 3, 0, 7, 0, 4, 9, 5, 5, 6, 6, 4, 9, 7,
    6, 4, 1, 4, 2, 1, 1, 8, 3, 5, 6, 9, 0, 1, 3, 5, 8, 0, 2, 7, 4, 3, 0,
    3, 3, 9, 5, 6, 7, 9, 9, 5, 3, 4, 6, 8, 9, 1, 9, 6, 0, 3, 8, 3, 7, 0,
    1, 4, 3, 7, 1, 2, 4, 4, 9, 5, 1, 8, 7, 0, 7, 7, 8, 6, 4, 3, 1, 6, 8,
    1, 1, 9, 1, 1, 3, 8, 9, 8, 0, 8, 7, 3, 7, 3, 8, 5, 7, 9, 3, 4, 7, 6,
    8, 6, 7, 0, 1, 3, 3, 9, 9, 9, 4, 0, 7, 3, 8, 5, 0, 9, 9, 2, 1, 5, 1,
    7, 4, 2, 4, 2, 7, 6, 5, 6, 6, 3, 6, 1, 3, 6, 4, 4, 6, 6, 9, 0, 7, 7,
    4, 2, 0, 9, 3, 2, 1, 6, 3, 4, 1, 2, 3, 9, 7, 6, 7, 6, 7, 8, 4, 7, 2,
    7, 4, 5, 0, 6, 8, 5, 6, 2, 0, 0, 7, 4, 8, 3, 4, 2, 4, 6, 9, 2, 6, 9,
    8, 6, 1, 8, 1, 0, 3, 3, 5, 5, 6, 4, 9, 1, 5, 9, 5, 5, 6, 3, 4, 0, 8,
    1, 0, 0, 5, 6, 5, 1, 2, 3, 5, 8, 7, 6, 9, 5, 5, 2, 3, 3, 3, 4, 1, 4,
    6, 1, 5, 2, 3, 0, 5, 0, 2, 5, 3, 2, 1, 8, 6, 3, 2, 7, 5, 0, 8, 6, 4,
    6, 0, 0, 6, 2, 6, 3, 3, 0, 7, 7, 0, 7, 7, 4, 1, 0, 9, 3, 4, 9, 4, 7,
    8, 4
    >>

\* 5^1075: half a step is 2^-1075 = 5^1075 * 10^-1075.
HalfUlp ==
    <<
    2, 4, 7, 0, 3, 2, 8, 2, 2, 9, 2, 0, 6, 2, 3, 2, 7, 2, 0, 8, 8, 2, 8,
    4, 3, 9, 6, 4, 3, 4, 1, 1, 0, 6, 8, 6, 1, 8, 2, 5, 2, 9, 9, 0, 1, 3,
    0, 7, 1, 6, 2, 3, 8, 2, 2, 1, 2, 7, 9, 2, 8, 4, 1, 2, 5, 0, 3, 3, 7,
    7, 5, 3, 6, 3, 5, 1, 0, 4, 3, 7, 5, 9, 3, 2, 6, 4, 9, 9, 1, 8, 1, 8,
    0, 8, 1, 7, 9, 9, 6, 1, 8, 9, 8, 9, 8, 2, 8, 2, 3, 4, 7, 7, 2, 2, 8,
    5, 8, 8, 6, 5, 4, 6, 3, 3, 2, 8, 3, 5, 5, 1, 7, 7, 9, 6, 9, 8, 9, 8,
    1, 9, 9, 3, 8, 7, 3, 9, 8, 0, 0, 5, 3, 9, 0, 9, 3, 9, 0, 6, 3, 1, 5,
    0, 3, 5, 6, 5, 9, 5, 1, 5, 5, 7, 0, 2, 2, 6, 3, 9, 2, 2, 9, 0, 8, 5,
    8, 3, 9, 2, 4, 4, 9, 1, 0, 5, 1, 8, 4, 4, 3, 5, 9, 3, 1, 8, 0, 2, 8,
    4, 9, 9, 3, 6, 5, 3, 6, 1, 5, 2, 5, 0, 0, 3, 1, 9, 3, 7, 0, 4, 5, 7,
    6, 7, 8, 2, 4, 9, 2, 1, 9, 3, 6, 5, 6, 2, 3, 6, 6, 9, 8, 6, 3, 6, 5,
    8, 4, 8, 0, 7, 5, 7, 0, 0, 1, 5, 8, 5, 7, 6, 9, 2, 6, 9, 9, 0, 3, 7,
    0, 6, 3, 1, 1, 9, 2, 8, 2, 7, 9, 5, 5, 8, 5, 5, 1, 3, 3, 2, 9, 2, 7,
    8, 3, 4, 3, 3, 8, 4, 0, 9, 3, 5, 1, 9, 7, 8, 0, 1, 5, 5, 3, 1, 2, 4,
    6, 5, 9, 7, 2, 6, 3, 5, 7, 9, 5, 7, 4, 6, 2, 2, 7, 6, 6, 4, 6, 5, 2,
    7, 2, 8, 2, 7, 2, 2, 0, 0, 5, 6, 3, 7, 4, 0, 0, 6, 4, 8, 5, 4, 9, 9,
    9, 7, 7, 0, 9, 6, 5, 9, 9, 4, 7, 0, 4, 5, 4, 0, 2, 0, 8, 2, 8, 1, 6,
    6, 2, 2, 6, 2, 3, 7, 8, 5, 7, 3, 9, 3, 4, 5, 0, 7, 3, 6, 3, 3, 9, 0,
    0, 7, 9, 6, 7, 7, 6, 1, 9, 3, 0, 5, 7, 7, 5, 0, 6, 7, 4, 0, 1, 7, 6,
    3, 2, 4, 6, 7, 3, 6, 0, 0, 9, 6, 8, 9, 5, 1, 3, 4, 0, 5, 3, 5, 5, 3,
    7, 4, 5, 8, 5, 1, 6, 6, 6, 1, 1, 3, 4, 2, 2, 3, 7, 6, 6, 6, 7, 8, 6,
    0, 4, 1, 6, 2, 1, 5, 9, 6, 8, 0, 4, 6, 1, 9, 1, 4, 4, 6, 7, 2, 9, 1,
    8, 4, 0, 3, 0, 0, 5, 3, 0, 0, 5, 7, 5, 3, 0, 8, 4, 9, 0, 4, 8, 7, 6,
    5, 3, 9, 1, 7, 1, 1, 3, 8, 6, 5, 9, 1, 6, 4, 6, 2, 3, 9, 5, 2, 4, 9,
    1, 2, 6, 2, 3, 6, 5, 3, 8, 8, 1, 8, 7, 9, 6, 3, 6, 2, 3, 9, 3, 7, 3,
    2, 8, 0, 4, 2, 3, 8, 9, 1, 0, 1, 8, 6, 7, 2, 3, 4, 8, 4, 9, 7, 6, 6,
    8, 2, 3, 5, 0, 8, 9, 8, 6, 3, 3, 8, 8, 5, 8, 7, 9, 2, 5, 6, 2, 8, 3,
    0, 2, 7, 5, 5, 9, 9, 5, 6, 5, 7, 5, 2, 4, 4, 5, 5, 5, 0, 7, 2, 5, 5,
    1, 8, 9, 3, 1, 3, 6, 9, 0, 8, 3, 6, 2, 5, 4, 7, 7, 9, 1, 8, 6, 9, 4,
    8, 6, 6, 7, 9, 9, 4, 9, 6, 8, 3, 2, 4, 0, 4, 9, 7, 0, 5, 8, 2, 1, 0,
    2, 8, 5, 1, 3, 1, 8, 5, 4, 5, 1, 3, 9, 6, 2, 1, 3, 8, 3, 7, 7, 2, 2,
    8, 2, 6, 1, 4, 5, 4, 3, 7, 6, 9, 3, 4, 1, 2, 5, 3, 2, 0, 9, 8, 5, 9,
    1, 3, 2, 7, 6, 6, 7, 2, 3, 6, 3, 2, 8, 1, 2, 5
    >>

\* T / 10^s to the nearest integer, a tie to the even one.
RoundAt(T, s) ==
    LET cut == Len(T) - s
        q == IF cut > 0 THEN SubSeq(T, 1, cut) ELSE <<0>>
        first == IF cut >= 0 THEN T[cut + 1] ELSE 0
        up == first > 5
              \/ (first = 5 /\ (q[Len(q)] % 2 = 1
                               \/ \E i \in (cut + 2)..Len(T) : T[i] # 0))
    IN  IF up THEN BigAdd(<<0>> \o q, Pad(<<1>>, Len(q) + 1)) ELSE q

\* The double nearest to m * 10^(-s), in steps of 2^-1074.
Ulps(m, s) == RoundAt(BigMul(Pow2, Digits(m)), s)

\* The shortest digits of a double of k steps (Number::toString, and the
\* n, e of its value): with mid = 2 * k * HalfUlp, the decimals that round
\* to the double are those from mid - HalfUlp to mid + HalfUlp (in units
\* of 10^-1075; no decimal of fewer digits than mid is one of the two ends).
\* The decimals that end at position i and are nearest to mid are mid cut
\* after digit i, and that plus one at digit i.
Down(mid, i) ==
    AsSequence([j \in 1..Len(mid) |-> IF j <= i THEN mid[j] ELSE 0])
Up(mid, i) ==
    BigAdd(Down(mid, i),
           AsSequence([j \in 1..Len(mid) |-> IF j = i THEN 1 ELSE 0]))
DownFits(mid, half, i) == BigLessEq(mid, BigAdd(Down(mid, i), half))
UpFits(mid, half, i) == BigLessEq(Up(mid, i), BigAdd(mid, half))

\* Whether the upper of two decimals, whose sum is both, is nearer to the
\* double than the lower (twice is 2 * mid); of two equally near, the even
\* one is (odd: the lower one is odd).
UpNearer(twice, both, odd) ==
    ~BigLessEq(twice, both) \/ (twice = both /\ odd)

\* Of the decimals ending at position i, the one that rounds to the double
\* and is nearest to it.
Nearest(mid, half, i) ==
    IF /\ UpFits(mid, half, i)
       /\ \/ ~DownFits(mid, half, i)
          \/ UpNearer(BigAdd(mid, mid), BigAdd(Down(mid, i), Up(mid, i)),
                      mid[i] % 2 = 1)
    THEN Up(mid, i)
    ELSE Down(mid, i)

\* The digits up to the first position, from i on, at which a decimal
\* that rounds to the double ends.
RECURSIVE ShortestFrom(_, _, _)
ShortestFrom(mid, half, i) ==
    IF DownFits(mid, half, i) \/ UpFits(mid, half, i)
    THEN [n |-> FromDigits(SubSeq(Nearest(mid, half, i), 1, i)),
          e |-> Len(mid) - i - 1075]
    ELSE ShortestFrom(mid, half, i + 1)

Shortest(mid) == ShortestFrom(mid, Pad(HalfUlp, Len(mid)), 1)

\* m * 10^(-s) below 1e-308 as a double that is not 0: n, e of its digits.
Subnormal(m, s) ==
    Shortest(<<0>> \o BigMul(HalfUlp, BigMul(Ulps(m, s), <<2>>)))

\* n * 10^e with e <= 0 and n no multiple of 10 unless e = 0.
RECURSIVE Scaled(_, _)
Scaled(n, e) ==
    IF n = 0 THEN Num(0)
    ELSE IF e > 0 THEN Scaled(n * 10, e - 1)
    ELSE IF e < 0 /\ n % 10 = 0 THEN Scaled(n \div 10, e + 1)
    ELSE [t |-> "num", n |-> n, e |-> e]

\* The double of sign * m * 10^e, for m > 0: the decimal itself from 1e-308
\* on, 0 below 1e-324 (less than half a step; -0 is 0 to === and to
\* JSON.stringify), the nearest multiple of 2^-1074 between.
Rounded(m, e, sign) ==
    IF Len(Digits(m)) + e > -308 THEN [t |-> "num", n |-> sign * m, e |-> e]
    ELSE IF Len(Digits(m)) + e < -323 THEN Num(0)
    ELSE LET d == Subnormal(m, 0 - e) IN Scaled(sign * d.n, d.e)

\* n * 10^e as a number value: the value JSON.parse gives the digits.
Decimal(n, e) ==
    LET d == Scaled(n, e)
    IN  IF d.n = 0 THEN d
        ELSE Rounded(IF d.n < 0 THEN 0 - d.n ELSE d.n, d.e,
                     IF d.n < 0 THEN -1 ELSE 1)

\* An array index as a property name is a canonical numeric text with a value
\* up to 2^32 - 2; such names come first in property order, ascending.
MaxIndexText == <<52, 50, 57, 52, 57, 54, 55, 50, 57, 52>>

RECURSIVE TextLess(_, _)
TextLess(a, b) ==
    IF a = <<>> \/ b = <<>> THEN a = <<>> /\ b # <<>>
    ELSE IF Head(a) # Head(b) THEN Head(a) < Head(b)
    ELSE TextLess(Tail(a), Tail(b))

IsIndexKey(k) ==
    /\ k # <<>>
    /\ \A i \in 1..Len(k) : IsDigit(k[i])
    /\ (k[1] = 48 => Len(k) = 1)
    /\ \/ Len(k) < 10
       \/ Len(k) = 10 /\ ~TextLess(MaxIndexText, k)

IndexLess(a, b) ==
    Len(a) < Len(b) \/ (Len(a) = Len(b) /\ TextLess(a, b))

HasKey(o, k) == \E i \in 1..Len(o) : o[i].k = k

\* The place of a new property k among the properties o.
RECURSIVE InsertAt(_, _)
InsertAt(o, k) ==
    IF ~IsIndexKey(k) THEN Len(o) + 1
    ELSE IF o = <<>> THEN 1
    ELSE IF IsIndexKey(Head(o).k) /\ IndexLess(Head(o).k, k)
    THEN 1 + InsertAt(Tail(o), k)
    ELSE 1

\* o with property k set to v: an existing property keeps its place.
DefineProperty(o, k, v) ==
    IF HasKey(o, k)
    THEN [i \in 1..Len(o) |-> IF o[i].k = k THEN [k |-> k, v |-> v] ELSE o[i]]
    ELSE LET p == InsertAt(o, k) IN
         SubSeq(o, 1, p - 1) \o <<[k |-> k, v |-> v]>> \o SubSeq(o, p, Len(o))

\* x.k for a property name k that no prototype defines (id, text): the own
\* property of an object, undefined for an array, a text, a number or a
\* boolean. Reading a property of null or undefined throws instead: of the
\* values read here only an element of the stored array can be null, and
\* the first render throws on it (renderThrows) before any handler runs.
Get(x, k) ==
    IF x.t = "obj" /\ HasKey(x.o, k)
    THEN x.o[CHOOSE i \in 1..Len(x.o) : x.o[i].k = k].v
    ELSE Undefined

\* a === b: numbers, texts, booleans, null and undefined by value, arrays and
\* objects by identity.
StrictEquals(a, b) ==
    IF a.t \in {"arr", "obj"} THEN a.t = b.t /\ a.r = b.r ELSE a = b

\* ---------------------------------------------------------- JSON.stringify
RECURSIVE NumToChars(_)
NumToChars(n) ==
    IF n < 10 THEN <<DigitChar(n)>>
    ELSE NumToChars(n \div 10) \o <<DigitChar(n % 10)>>

Zeros(k) == [i \in 1..k |-> 48]

\* Number::toString for n * 10^e: digits, a decimal point where needed, and
\* the exponent form below 1e-6.
NumberToString(v) ==
    LET m == IF v.n < 0 THEN 0 - v.n ELSE v.n
        d == NumToChars(m)
        k == Len(d)
        p == k + v.e
        sign == IF v.n < 0 THEN <<45>> ELSE <<>>
    IN  sign \o
        (IF v.e = 0 THEN d
         ELSE IF p > 0 THEN SubSeq(d, 1, p) \o <<46>> \o SubSeq(d, p + 1, k)
         ELSE IF p > -6 THEN <<48, 46>> \o Zeros(0 - p) \o d
         ELSE <<d[1]>>
              \o (IF k > 1 THEN <<46>> \o SubSeq(d, 2, k) ELSE <<>>)
              \o <<101, 45>> \o NumToChars(1 - p))

HexChar(h) == IF h < 10 THEN 48 + h ELSE 87 + h

\* \uXXXX with lower-case hex digits.
UnicodeEscape(c) ==
    <<Backslash, 117, HexChar(c \div 4096), HexChar((c \div 256) % 16),
      HexChar((c \div 16) % 16), HexChar(c % 16)>>

IsHighSurrogate(c) == c >= 55296 /\ c <= 56319
IsLowSurrogate(c) == c >= 56320 /\ c <= 57343

\* QuoteJSONString for one code unit that is no part of a surrogate pair.
QuoteChar(c) ==
    IF c = 8 THEN <<Backslash, 98>>
    ELSE IF c = 9 THEN <<Backslash, 116>>
    ELSE IF c = 10 THEN <<Backslash, 110>>
    ELSE IF c = 12 THEN <<Backslash, 102>>
    ELSE IF c = 13 THEN <<Backslash, 114>>
    ELSE IF c = Quote \/ c = Backslash THEN <<Backslash, c>>
    ELSE IF c < 32 \/ IsHighSurrogate(c) \/ IsLowSurrogate(c)
    THEN UnicodeEscape(c)
    ELSE <<c>>

\* A serializer that copies every code unit unescaped.
QuoteCharsRaw(s) == s

\* The characters of a text between the quotes: the quote, the backslash,
\* the control characters and lone surrogates escaped, a surrogate pair as
\* it is.
RECURSIVE QuoteChars(_)
QuoteChars(s) ==
    IF s = <<>> THEN <<>>
    ELSE IF Len(s) >= 2 /\ IsHighSurrogate(s[1]) /\ IsLowSurrogate(s[2])
    THEN <<s[1], s[2]>> \o QuoteChars(Tail(Tail(s)))
    ELSE QuoteChar(Head(s)) \o QuoteChars(Tail(s))

StringifyString(s) == <<Quote>> \o QuoteChars(s) \o <<Quote>>

RECURSIVE StringifyValue(_)
RECURSIVE StringifyItems(_)
RECURSIVE StringifyProperties(_, _)

\* The elements of an array, comma separated; undefined is written as null.
StringifyItems(list) ==
    IF list = <<>> THEN <<>>
    ELSE (IF Head(list).t = "undefined" THEN <<110, 117, 108, 108>>
          ELSE StringifyValue(Head(list)))
         \o (IF Len(list) = 1 THEN <<>>
             ELSE <<44>> \o StringifyItems(Tail(list)))

\* The properties of an object, comma separated; a property whose value is
\* undefined is left out. first: no property has been written yet.
StringifyProperties(o, first) ==
    IF o = <<>> THEN <<>>
    ELSE IF Head(o).v.t = "undefined" THEN StringifyProperties(Tail(o), first)
    ELSE (IF first THEN <<>> ELSE <<44>>)
         \o StringifyString(Head(o).k) \o <<58>> \o StringifyValue(Head(o).v)
         \o StringifyProperties(Tail(o), FALSE)

\* A note, or any other value: {"id":1,"text":"a"}
StringifyValue(v) ==
    IF v.t = "null" THEN <<110, 117, 108, 108>>
    ELSE IF v.t = "bool"
    THEN (IF v.b THEN <<116, 114, 117, 101>> ELSE <<102, 97, 108, 115, 101>>)
    ELSE IF v.t = "num" THEN NumberToString(v)
    ELSE IF v.t = "str" THEN StringifyString(v.s)
    ELSE IF v.t = "arr" THEN <<91>> \o StringifyItems(v.a) \o <<93>>
    ELSE <<123>> \o StringifyProperties(v.o, TRUE) \o <<125>>

\* JSON.stringify of a note list: [{"id":1,"text":"a"},...]
JSONstringify(list) == StringifyValue(Arr(list))

\* -------------------------------------------------------------- JSON.parse
\* A parse step returns [ok, v, rest]; ok = FALSE is a SyntaxError.
ParseFail == [ok |-> FALSE, v |-> Null, rest |-> <<>>]

IsJsonSpace(c) == c \in {32, 9, 10, 13}

RECURSIVE skipWs(_)
skipWs(s) == IF s # <<>> /\ IsJsonSpace(Head(s)) THEN skipWs(Tail(s)) ELSE s

HasPrefix(s, p) == Len(s) >= Len(p) /\ SubSeq(s, 1, Len(p)) = p

\* A run of digits: their value on top of acc, their number on top of count.
RECURSIVE ParseDigits(_, _, _)
ParseDigits(s, acc, count) ==
    IF s # <<>> /\ IsDigit(Head(s))
    THEN ParseDigits(Tail(s), acc * 10 + DigitValue(Head(s)), count + 1)
    ELSE [n |-> acc, count |-> count, rest |-> s]

\* The exponent part at the head of s, if there is one: its value, 0 without.
ExponentPart(s) ==
    IF s = <<>> \/ Head(s) \notin {101, 69}
    THEN [ok |-> TRUE, n |-> 0, rest |-> s]
    ELSE LET signed == Len(s) >= 2 /\ s[2] \in {43, 45}
             exp == ParseDigits(SubSeq(s, IF signed THEN 3 ELSE 2, Len(s)), 0, 0)
         IN  [ok |-> exp.count > 0,
              n |-> IF signed /\ s[2] = 45 THEN 0 - exp.n ELSE exp.n,
              rest |-> exp.rest]

\* The exponent of a JSON number whose digits so far stand for n * 10^e.
NumberExponent(n, e, s) ==
    LET x == ExponentPart(s)
    IN  IF x.ok THEN [ok |-> TRUE, v |-> Decimal(n, e + x.n), rest |-> x.rest]
        ELSE ParseFail

\* The fraction part at the head of int.rest, if there is one: the digits
\* so far with those of the fraction, and how many the fraction has.
FractionPart(int) ==
    IF int.rest = <<>> \/ Head(int.rest) # 46
    THEN [ok |-> TRUE, n |-> int.n, count |-> 0, rest |-> int.rest]
    ELSE LET frac == ParseDigits(Tail(int.rest), int.n, 0)
         IN  [ok |-> frac.count > 0, n |-> frac.n, count |-> frac.count,
              rest |-> frac.rest]

\* The fraction and exponent of a JSON number after its integer part int.
NumberFraction(int, sign) ==
    LET f == FractionPart(int)
    IN  IF f.ok THEN NumberExponent(sign * f.n, 0 - f.count, f.rest)
        ELSE ParseFail

\* A JSON number at the head of s0: -? (0 | [1-9][0-9]*) (. [0-9]+)?
\* ([eE] [+-]? [0-9]+)?
ParseNumber(s0) ==
    LET sign == IF s0 # <<>> /\ Head(s0) = 45 THEN -1 ELSE 1
        s == IF sign = -1 THEN Tail(s0) ELSE s0
    IN  IF s = <<>> \/ ~IsDigit(Head(s)) THEN ParseFail
        ELSE NumberFraction(IF Head(s) = 48
                            THEN [n |-> 0, count |-> 1, rest |-> Tail(s)]
                            ELSE ParseDigits(s, 0, 0),
                            sign)

IsHexDigit(c) ==
    IsDigit(c) \/ (c >= 97 /\ c <= 102) \/ (c >= 65 /\ c <= 70)

HexValue(c) ==
    IF IsDigit(c) THEN c - 48 ELSE IF c >= 97 THEN c - 87 ELSE c - 55

\* The code unit an escape letter stands for; 0 for a letter that is none.
EscapedChar(c) ==
    IF c = Quote \/ c = Backslash \/ c = 47 THEN c
    ELSE IF c = 98 THEN 8
    ELSE IF c = 102 THEN 12
    ELSE IF c = 110 THEN 10
    ELSE IF c = 114 THEN 13
    ELSE IF c = 116 THEN 9
    ELSE 0

\* s starts after the opening quote; acc holds the code units read so far.
\* A control character must be escaped.
RECURSIVE ParseStringBody(_, _)
ParseStringBody(s, acc) ==
    IF s = <<>> THEN ParseFail
    ELSE IF Head(s) = Quote
    THEN [ok |-> TRUE, v |-> Str(acc), rest |-> Tail(s)]
    ELSE IF Head(s) < 32 THEN ParseFail
    ELSE IF Head(s) # Backslash
    THEN ParseStringBody(Tail(s), Append(acc, Head(s)))
    ELSE IF Len(s) < 2 THEN ParseFail
    ELSE IF s[2] = 117
    THEN IF Len(s) >= 6 /\ \A i \in 3..6 : IsHexDigit(s[i])
         THEN ParseStringBody(SubSeq(s, 7, Len(s)),
                  Append(acc, HexValue(s[3]) * 4096 + HexValue(s[4]) * 256
                              + HexValue(s[5]) * 16 + HexValue(s[6])))
         ELSE ParseFail
    ELSE IF EscapedChar(s[2]) # 0
    THEN ParseStringBody(Tail(Tail(s)), Append(acc, EscapedChar(s[2])))
    ELSE ParseFail

RECURSIVE ParseValue(_)
RECURSIVE ParseElements(_, _, _)
RECURSIVE ParseMembers(_, _, _)

\* s starts at an element of the array of identity r; acc holds the elements
\* read so far.
ParseElements(s, acc, r) ==
    LET e == ParseValue(s) IN
    IF ~e.ok THEN ParseFail
    ELSE LET t == skipWs(e.rest) IN
         IF t = <<>> THEN ParseFail
         ELSE IF Head(t) = 93
         THEN [ok |-> TRUE,
               v |-> [t |-> "arr", a |-> Append(acc, e.v), r |-> r],
               rest |-> Tail(t)]
         ELSE IF Head(t) = 44
         THEN ParseElements(Tail(t), Append(acc, e.v), r)
         ELSE ParseFail

\* s starts at a member "key":value of the object of identity r; a repeated
\* key keeps its place and takes the later value.
ParseMembers(s, acc, r) ==
    LET k == skipWs(s) IN
    IF k = <<>> \/ Head(k) # Quote THEN ParseFail
    ELSE LET key == ParseStringBody(Tail(k), <<>>) IN
         IF ~key.ok THEN ParseFail
         ELSE LET c == skipWs(key.rest) IN
              IF c = <<>> \/ Head(c) # 58 THEN ParseFail
              ELSE LET e == ParseValue(Tail(c)) IN
                   IF ~e.ok THEN ParseFail
                   ELSE LET t == skipWs(e.rest)
                            m == DefineProperty(acc, key.v.s, e.v)
                        IN  IF t = <<>> THEN ParseFail
                            ELSE IF Head(t) = 125
                            THEN [ok |-> TRUE,
                                  v |-> [t |-> "obj", o |-> m, r |-> r],
                                  rest |-> Tail(t)]
                            ELSE IF Head(t) = 44
                            THEN ParseMembers(Tail(t), m, r)
                            ELSE ParseFail

\* An array or object takes as identity the length of the text from its
\* opening bracket on: no two values of one text share it.
ParseValue(s0) ==
    LET s == skipWs(s0) IN
    IF s = <<>> THEN ParseFail
    ELSE IF HasPrefix(s, <<110, 117, 108, 108>>)
    THEN [ok |-> TRUE, v |-> Null, rest |-> SubSeq(s, 5, Len(s))]
    ELSE IF HasPrefix(s, <<116, 114, 117, 101>>)
    THEN [ok |-> TRUE, v |-> Bool(TRUE), rest |-> SubSeq(s, 5, Len(s))]
    ELSE IF HasPrefix(s, <<102, 97, 108, 115, 101>>)
    THEN [ok |-> TRUE, v |-> Bool(FALSE), rest |-> SubSeq(s, 6, Len(s))]
    ELSE IF IsDigit(Head(s)) \/ Head(s) = 45 THEN ParseNumber(s)
    ELSE IF Head(s) = Quote THEN ParseStringBody(Tail(s), <<>>)
    ELSE IF Head(s) = 91
    THEN LET t == skipWs(Tail(s)) IN
         IF t # <<>> /\ Head(t) = 93
         THEN [ok |-> TRUE, v |-> [t |-> "arr", a |-> <<>>, r |-> Len(s)],
               rest |-> Tail(t)]
         ELSE ParseElements(Tail(s), <<>>, Len(s))
    ELSE IF Head(s) = 123
    THEN LET t == skipWs(Tail(s)) IN
         IF t # <<>> /\ Head(t) = 125
         THEN [ok |-> TRUE, v |-> [t |-> "obj", o |-> <<>>, r |-> Len(s)],
               rest |-> Tail(t)]
         ELSE ParseMembers(Tail(s), <<>>, Len(s))
    ELSE ParseFail

\* JSON.parse: one value, then nothing but white space.
JSONparse(s) ==
    LET r == ParseValue(s) IN
    IF r.ok /\ skipWs(r.rest) = <<>> THEN r ELSE ParseFail

\* ------------------------------------------------------------------ values
\* The clock value at the first mount; ids already in storage are earlier.
StartClock == 3

\* What the user may have in the input field when a keystroke is handled: a
\* tab and a blank, and a tab, a quote and a backslash.
KeyValues == {<<Tab, Space>>, <<Tab, Quote, Backslash>>}

\* { id: id, text: text }
Note(id, text) == Obj(<<[k |-> IdKey, v |-> id], [k |-> TextKey, v |-> text]>>)

\* n.id and n.text
idOf(n) == Get(n, IdKey)
textOf(n) == Get(n, TextKey)

Absent == [has |-> FALSE, text |-> <<>>]
Item(text) == [has |-> TRUE, text |-> text]

\* Lists written by an earlier session: two notes made at different clock
\* values, with the texts "a" and "b", and two notes made at the same clock
\* value (the same id).
StoredNotes == <<Note(Num(0), Str(<<97>>)), Note(Num(1), Str(<<98>>))>>
StoredTwins == <<Note(Num(1), Str(<<97>>)), Note(Num(1), Str(<<98>>))>>

\* A list another program wrote, indented with line feeds and a tab: one
\* entry whose id is -1.5 and whose text is true.
\*   [ LF TAB {"id": -1.5, "text": true} LF ]
ForeignText ==
    <<91, 10, 9, 123, 34, 105, 100, 34, 58, 32, 45, 49, 46, 53, 44, 32,
      34, 116, 101, 120, 116, 34, 58, 32, 116, 114, 117, 101, 125, 10, 93>>

\* The slot contents a first mount may find: no entry, the empty string, text
\* that is no JSON ("[{"), JSON that is no array ("null" and "{}"), lists
\* written by an earlier session, and the list of another program.
InitSlots ==
    { Absent,
      Item(<<>>),
      Item(<<91, 123>>),
      Item(<<110, 117, 108, 108>>),
      Item(<<123, 125>>),
      Item(JSONstringify(<<>>)),
      Item(JSONstringify(StoredNotes)),
      Item(JSONstringify(StoredTwins)),
      Item(ForeignText) }

\* "ok", or "denied": getItem and setItem throw (storage disabled, or
\* blocked for this origin).
StorageStates == {"ok", "denied"}

\* The mounts the model starts from: every slot content with working storage,
\* and a stored list behind a storage whose every access throws.
InitMounts ==
    {<<sl, "ok">> : sl \in InitSlots}
    \cup {<<Item(JSONstringify(StoredNotes)), "denied">>}

Hooks == {"notes", "input", "editId", "sync", "isPending"}
EmptyQueues == [h \in Hooks |-> <<>>]

VARIABLES
    cur,          \* hook values of the committed render (what handlers close over)
    base,         \* each hook's base state (React's baseState)
    queue,        \* each hook's updates not yet fully applied: [lane, val]
    debounce,     \* the pending debounce timers, oldest first: the value each
                  \* will set, and whether debounceTimeout.current is its id
    resetTimers,  \* number of pending setTimeout(() => setSync(false), 500)
    slot,         \* localStorage entry "catatan"
    storage,      \* "ok" or "denied" (every access throws), for the session
    now,          \* Date.now()
    sends,        \* fetch calls made since mount, counted by the list sent:
                  \* sends[r + 1] counts those whose data was the r-th stored
                  \* list (r = 0: the mounted list)
    body,         \* the body of the latest fetch call
    crashed,      \* the render threw and the component is unmounted
    muts,         \* history: the number of setValue calls since mount
    expected,     \* history: the mounted list with every mutation applied in order
    adds,         \* history: the clock values at which a note was added
    cleared,      \* history: a non-blank submit was made, and no keystroke
                  \* and no edit request since
    last          \* history: the step that led to this state

vars == <<cur, base, queue, debounce, resetTimers, slot, storage, now, sends, body,
          crashed, muts, expected, adds, cleared, last>>

\* --------------------------------------------------------- useLocalStorage
initialValue == Arr(<<>>)

\* The lazy initial state of useLocalStorage: the parsed item, or initialValue
\* when there is no item, the item is the empty string, or reading or parsing
\* throws.
loadStored(sl, st) ==
    IF st = "denied" THEN initialValue
    ELSE IF ~sl.has \/ sl.text = <<>> THEN initialValue
    ELSE LET r == JSONparse(sl.text) IN
         IF r.ok THEN r.v ELSE initialValue

\* x without its own identity: that of the values inside it is kept.
Anonymous(x) == IF x.t \in {"arr", "obj"} THEN [x EXCEPT !.r = 0] ELSE x

\* The elements of the stored value when it is an array; no other value gets
\* past the first render. Nothing compares the elements themselves by
\* identity (n.id === id compares their ids), so theirs is left out.
NotesOf(v) ==
    IF v.t = "arr" THEN [i \in 1..Len(v.a) |-> Anonymous(v.a[i])] ELSE <<>>

\* {note.text} as a React child: an object throws ("Objects are not valid as
\* a React child"), an array is rendered child by child, every other value
\* is rendered or left out.
RECURSIVE childThrows(_)
childThrows(x) ==
    \/ x.t = "obj"
    \/ x.t = "arr" /\ \E i \in 1..Len(x.a) : childThrows(x.a[i])

\* The render calls notes.map and reads note.id and note.text of every
\* element: it throws unless notes is an array whose elements are not null
\* and have a text that React can render.
renderThrows(v) ==
    \/ v.t # "arr"
    \/ \E i \in 1..Len(v.a) :
          v.a[i].t = "null" \/ childThrows(textOf(v.a[i]))

\* ------------------------------------------------------ React update queue
\* Updates carry the lane of the code that made them: "sync" inside a click or
\* submit handler (rendered before the handler's event ends), "default"
\* inside a timer callback, "transition" inside startTransition (both
\* rendered later, the default lane first).
Enq(Q, h, lane, val) ==
    [Q EXCEPT ![h] = Append(@, [lane |-> lane, val |-> val])]

\* React's updateReducer over one hook queue for the lanes L of a render: an
\* update of another lane is skipped and kept; every update after a skipped
\* one is applied now and kept too, with no lane, to be applied again on top
\* of the skipped one later.
RECURSIVE reduceQueue(_, _, _, _, _, _)
reduceQueue(q, L, newState, newBase, newQ, skipped) ==
    IF q = <<>>
    THEN [memo |-> newState,
          base |-> IF skipped THEN newBase ELSE newState,
          queue |-> newQ]
    ELSE LET u == Head(q) IN
         IF u.lane # "none" /\ u.lane \notin L
         THEN reduceQueue(Tail(q), L, newState,
                          IF skipped THEN newBase ELSE newState,
                          Append(newQ, u), TRUE)
         ELSE reduceQueue(Tail(q), L, u.val, newBase,
                          IF skipped
                            THEN Append(newQ, [lane |-> "none", val |-> u.val])
                            ELSE newQ,
                          skipped)

renderHooks(B, Q, L) ==
    [h \in Hooks |-> reduceQueue(Q[h], L, B[h], B[h], <<>>, FALSE)]

\* The bound on the updates left waiting after a step.
Fits(Q) == \A h \in Hooks : Len(Q[h]) <= MaxQueue

\* The number of updates of a lane waiting in the queues.
CountLane(Q, lane) ==
    Cardinality({<<h, i>> \in Hooks \X (1..MaxQueue) :
                    i <= Len(Q[h]) /\ Q[h][i].lane = lane})

HasLane(Q, lane) ==
    \E h \in Hooks : \E i \in 1..Len(Q[h]) : Q[h][i].lane = lane

\* ---------------------------------------------------------------- useFetch
\* An effect without dependencies: it fetches after every commit that renders
\* the trigger true.
useFetchEveryCommit(prevData, prevTrigger, data, trigger) == trigger

\* An effect without the trigger test: it fetches whenever it runs.
useFetchIgnoresTrigger(prevData, prevTrigger, data, trigger) ==
    data.ref # prevData.ref \/ trigger # prevTrigger

\* The effect of useFetch after a commit: it runs when data or trigger is not
\* the value of the previous commit (Object.is), and fetches when trigger is
\* true.
useFetch(prevData, prevTrigger, data, trigger) ==
    (data.ref # prevData.ref \/ trigger # prevTrigger) /\ trigger

\* fetch(url, {method: "POST", body: JSON.stringify(data)}): nothing is
\* awaited or read back; the call is counted and its body kept.
fetch(data) ==
    /\ sends' = [sends EXCEPT ![data.ref + 1] = @ + 1]
    /\ body' = JSONstringify(data.list)

\* A render of lanes L over the queues Q, committed, with its effects.
Commit(Q, L) ==
    LET R == renderHooks(base, Q, L) IN
    /\ cur' = [h \in Hooks |-> R[h].memo]
    /\ base' = [h \in Hooks |-> R[h].base]
    /\ queue' = [h \in Hooks |-> R[h].queue]
    /\ IF useFetch(cur.notes, cur.sync, R["notes"].memo, R["sync"].memo)
         THEN fetch(R["notes"].memo)
         ELSE UNCHANGED <<sends, body>>

\* ------------------------------------------------------ the list mutations
\* The own enumerable properties that { ...n } copies: those of an object,
\* the elements of an array and the code units of a text under their
\* indices, and none of any other value.
Spread(n) ==
    IF n.t = "obj" THEN n.o
    ELSE IF n.t = "arr"
    THEN [i \in 1..Len(n.a) |-> [k |-> NumToChars(i - 1), v |-> n.a[i]]]
    ELSE IF n.t = "str"
    THEN [i \in 1..Len(n.s) |-> [k |-> NumToChars(i - 1), v |-> Str(<<n.s[i]>>)]]
    ELSE <<>>

\* { ...n, text: input }
withText(n, input) == Obj(DefineProperty(Spread(n), TextKey, input))

\* An edit that forgets the id test and rewrites every entry.
editNoteAll(prev, editId, input) ==
    [i \in 1..Len(prev) |-> withText(prev[i], input)]

\* An edit that appends the text as a new note when no entry has the id.
editNoteOrAppend(prev, editId, input) ==
    IF \E i \in 1..Len(prev) : StrictEquals(idOf(prev[i]), editId)
    THEN [i \in 1..Len(prev) |->
            IF StrictEquals(idOf(prev[i]), editId)
            THEN withText(prev[i], input)
            ELSE prev[i]]
    ELSE Append(prev, Note(editId, input))

\* prev.map((n) => (n.id === editId ? { ...n, text: input } : n))
editNote(prev, editId, input) ==
    [i \in 1..Len(prev) |->
        IF StrictEquals(idOf(prev[i]), editId)
        THEN withText(prev[i], input)
        ELSE prev[i]]

\* An add that puts the new note first.
addNoteFront(prev, clock, input) == <<Note(Num(clock), input)>> \o prev

\* [...prev, { id: Date.now(), text: input }]
addNote(prev, clock, input) == Append(prev, Note(Num(clock), input))

\* prev.filter((n) => n.id !== id)
RECURSIVE deleteNote(_, _)
deleteNote(prev, id) ==
    IF prev = <<>> THEN <<>>
    ELSE IF ~StrictEquals(idOf(Head(prev)), id)
    THEN <<Head(prev)>> \o deleteNote(Tail(prev), id)
    ELSE deleteNote(Tail(prev), id)

\* A write that is skipped for a falsy-looking (empty) list.
setItemSkipsEmpty(sl, st, list) ==
    IF st = "ok" /\ list # <<>> THEN Item(JSONstringify(list)) ELSE sl

\* localStorage.setItem inside setValue's try: the slot after the write. A
\* write that throws leaves the slot as it was.
setItem(sl, st, list) ==
    IF st = "ok" THEN Item(JSONstringify(list)) ELSE sl

\* A setValue that writes to storage first: a throwing write skips
\* setStoredValue.
setValueAfterWrite(Q, lane, list) ==
    IF storage = "ok"
    THEN Enq(Q, "notes", lane, [ref |-> muts + 1, list |-> list])
    ELSE Q

\* useLocalStorage.setValue with the result of value(storedValue):
\* setStoredValue(valueToStore) in the lane of the caller.
setValue(Q, lane, list) ==
    Enq(Q, "notes", lane, [ref |-> muts + 1, list |-> list])

\* ---------------------------------------------------------- debounce timer
\* A clearTimeout that cancels nothing.
clearTimeoutNothing(T) == T

\* clearTimeout(debounceTimeout.current): the timer with that id is removed
\* if it is still pending; the id of a timer that has fired cancels nothing.
clearTimeout(T) == SelectSeq(T, LAMBDA t : ~t.current)

\* debounceTimeout.current = setTimeout(() => setInput(value), 100): a new
\* timer, the only one whose id the ref holds.
setTimeoutDebounce(T, value) ==
    Append([i \in 1..Len(T) |-> [T[i] EXCEPT !.current = FALSE]],
           [value |-> value, current |-> TRUE])

\* ----------------------------------------------------------------- history
\* The record of a step: the handler, the list it closed over, the id and
\* text (JavaScript values) it worked with, whether a fetch call was made during the step, for an
\* add, whether no earlier add had the same clock value, and, for a
\* keystroke, the values of the timers its clearTimeout cancelled.
Step(op, prev, id, text) ==
    [op |-> op, prev |-> prev, id |-> id, text |-> text,
     sent |-> sends' # sends, fresh |-> (op = "add" /\ now \notin adds),
     cancelled |-> IF op = "key"
                   THEN [i \in 1..(Len(debounce) - Len(clearTimeout(debounce)))
                            |-> debounce[i].value]
                   ELSE <<>>]

\* A step that is no mutation.
Other(op) == Step("other", <<>>, Null, Str(<<>>))

\* -------------------------------------------------------------------- mount
\* The state after the component has mounted on slot sl: useState initial
\* values, no timer, and no fetch (the effect runs with trigger false).
Mounted(sl, st) ==
    LET v == loadStored(sl, st)
        c == [notes |-> [ref |-> 0, list |-> NotesOf(v)], input |-> Str(<<>>),
              editId |-> Null, sync |-> FALSE, isPending |-> FALSE]
    IN  /\ cur = c
        /\ base = c
        /\ queue = EmptyQueues
        /\ debounce = <<>>
        /\ resetTimers = 0
        /\ sends = [r \in 1..(MaxMutations + 1) |-> 0]
        /\ body = <<>>
        /\ crashed = renderThrows(v)
        /\ muts = 0
        /\ expected = NotesOf(v)
        /\ adds = {}
        /\ cleared = FALSE

Init ==
    /\ \E m \in InitMounts : slot = m[1] /\ storage = m[2]
    /\ now = StartClock
    /\ Mounted(slot, storage)
    /\ last = [op |-> "mount", prev |-> <<>>, id |-> Null, text |-> Str(<<>>),
               sent |-> FALSE, fresh |-> FALSE, cancelled |-> <<>>]

\* ----------------------------------------------------------------- handlers
\* onChange: cancel the pending debounce timer and start one for this value,
\* the text of the input field.
handleInput(value) ==
    /\ ~crashed
    /\ debounce' = setTimeoutDebounce(clearTimeout(debounce), Str(value))
    /\ UNCHANGED <<cur, base, queue, resetTimers, slot, storage, now, sends, body,
                   crashed, muts, expected, adds>>
    /\ cleared' = FALSE
    /\ last' = Step("key", <<>>, Null, Str(value))

\* The oldest debounce timer fires (all have the same delay): setInput(value),
\* outside any event.
DebounceFire ==
    /\ ~crashed
    /\ debounce # <<>>
    /\ CountLane(queue, "default") < MaxDeferred
    /\ queue' = Enq(queue, "input", "default", Head(debounce).value)
    /\ Fits(queue')
    /\ debounce' = Tail(debounce)
    /\ UNCHANGED <<cur, base, resetTimers, slot, storage, now, sends, body, crashed,
                   muts, expected, adds, cleared>>
    /\ last' = Other("debounce")

\* onSubmit with a committed input that is no text (the text of a note another
\* program wrote, loaded by an edit request): input.trim() throws a
\* TypeError, which ends the handler after preventDefault; the component
\* stays mounted.
SubmitThrows ==
    /\ ~crashed
    /\ ~cur.isPending
    /\ cur.input.t # "str"
    /\ UNCHANGED <<cur, base, queue, debounce, resetTimers, slot, storage, now,
                   sends, body, crashed, muts, expected, adds, cleared>>
    /\ last' = Other("throw")

\* onSubmit with an empty or all-blank committed input: the early return.
\* The submit button is disabled while isPending is rendered true, so the
\* browser dispatches no submit until the transition has rendered.
SubmitEmpty ==
    /\ ~crashed
    /\ ~cur.isPending
    /\ cur.input.t = "str" /\ trim(cur.input.s) = <<>>
    /\ UNCHANGED <<cur, base, queue, debounce, resetTimers, slot, storage, now,
                   sends, body, crashed, muts, expected, adds, cleared>>
    /\ last' = Step("reject", <<>>, cur.editId, cur.input)

\* What startTransition's callback enqueues after setNotes, all in the
\* transition lane; startTransition itself sets isPending true in the lane of
\* the event and false in the transition lane.
TransitionUpdates(Q, list, wasEdit) ==
    LET q1 == Enq(Q, "isPending", "sync", TRUE)
        q2 == Enq(q1, "isPending", "transition", FALSE)
        q3 == setValue(q2, "transition", list)
        q4 == IF wasEdit THEN Enq(q3, "editId", "transition", Null) ELSE q3
        q5 == Enq(q4, "input", "transition", Str(<<>>))
    IN  Enq(q5, "sync", "transition", TRUE)

\* onSubmit in create mode (editId === null) with non-blank input.
SubmitAdd ==
    /\ ~crashed
    /\ ~cur.isPending
    /\ cur.input.t = "str" /\ trim(cur.input.s) # <<>>
    /\ cur.editId = Null
    /\ muts < MaxMutations
    /\ Len(cur.notes.list) < MaxNotes
    /\ LET list == addNote(cur.notes.list, now, cur.input) IN
       /\ Commit(TransitionUpdates(queue, list, FALSE), {"sync"})
       /\ Fits(queue')
       /\ slot' = setItem(slot, storage, list)
       /\ muts' = muts + 1
       /\ expected' = addNote(expected, now, cur.input)
       /\ adds' = adds \cup {now}
    /\ resetTimers' = resetTimers + 1
    /\ UNCHANGED <<debounce, storage, now, crashed>>
    /\ cleared' = TRUE
    /\ last' = Step("add", cur.notes.list, Null, cur.input)

\* onSubmit in edit mode (editId !== null) with non-blank input.
SubmitEdit ==
    /\ ~crashed
    /\ ~cur.isPending
    /\ cur.input.t = "str" /\ trim(cur.input.s) # <<>>
    /\ cur.editId # Null
    /\ muts < MaxMutations
    /\ LET list == editNote(cur.notes.list, cur.editId, cur.input) IN
       /\ Commit(TransitionUpdates(queue, list, TRUE), {"sync"})
       /\ Fits(queue')
       /\ slot' = setItem(slot, storage, list)
       /\ muts' = muts + 1
       /\ expected' = editNote(expected, cur.editId, cur.input)
    /\ resetTimers' = resetTimers + 1
    /\ UNCHANGED <<debounce, storage, now, crashed, adds>>
    /\ cleared' = TRUE
    /\ last' = Step("edit", cur.notes.list, cur.editId, cur.input)

\* The ids the rendered buttons pass to handleEdit and handleDelete.
NoteIds(list) == {idOf(list[i]) : i \in 1..Len(list)}

\* notes.find((n) => n.id === id)
findNote(list, id) ==
    list[CHOOSE i \in 1..Len(list) :
            /\ StrictEquals(idOf(list[i]), id)
            /\ \A j \in 1..(i - 1) : ~StrictEquals(idOf(list[j]), id)]

\* An edit request that enters edit mode without loading the note's text.
handleEditKeepsInput(id) ==
    /\ ~crashed
    /\ id \in NoteIds(cur.notes.list)
    /\ Commit(Enq(queue, "editId", "sync", id), {"sync"}) /\ Fits(queue')
    /\ UNCHANGED <<debounce, resetTimers, slot, storage, now, crashed, muts,
                   expected, adds>>
    /\ cleared' = FALSE
    /\ last' = Other("editreq")

\* The edit button of a rendered note.
handleEdit(id) ==
    /\ ~crashed
    /\ id \in NoteIds(cur.notes.list)
    /\ LET note == findNote(cur.notes.list, id)
           q1 == Enq(queue, "input", "sync", textOf(note))
           q2 == Enq(q1, "editId", "sync", id)
       IN  Commit(q2, {"sync"}) /\ Fits(queue')
    /\ UNCHANGED <<debounce, resetTimers, slot, storage, now, crashed, muts,
                   expected, adds>>
    /\ cleared' = FALSE
    /\ last' = Other("editreq")

\* A delete that also leaves edit mode when the deleted note is the one under
\* edit.
handleDeleteLeavesEditMode(id) ==
    /\ ~crashed
    /\ id \in NoteIds(cur.notes.list)
    /\ muts < MaxMutations
    /\ LET list == deleteNote(cur.notes.list, id)
           q1 == setValue(queue, "sync", list)
           q2 == Enq(q1, "sync", "sync", TRUE)
           q3 == IF StrictEquals(cur.editId, id) THEN Enq(q2, "editId", "sync", Null) ELSE q2
       IN  /\ Commit(q3, {"sync"})
           /\ Fits(queue')
           /\ slot' = setItem(slot, storage, list)
           /\ muts' = muts + 1
           /\ expected' = deleteNote(expected, id)
    /\ resetTimers' = resetTimers + 1
    /\ UNCHANGED <<debounce, storage, now, crashed, adds, cleared>>
    /\ last' = Step("delete", cur.notes.list, id, Str(<<>>))

\* A delete that starts no reset timer.
handleDeleteNoReset(id) ==
    /\ ~crashed
    /\ id \in NoteIds(cur.notes.list)
    /\ muts < MaxMutations
    /\ LET list == deleteNote(cur.notes.list, id)
           q1 == setValue(queue, "sync", list)
           q2 == Enq(q1, "sync", "sync", TRUE)
       IN  /\ Commit(q2, {"sync"})
           /\ Fits(queue')
           /\ slot' = setItem(slot, storage, list)
           /\ muts' = muts + 1
           /\ expected' = deleteNote(expected, id)
    /\ UNCHANGED <<debounce, resetTimers, storage, now, crashed, adds, cleared>>
    /\ last' = Step("delete", cur.notes.list, id, Str(<<>>))

\* The delete button of a rendered note.
handleDelete(id) ==
    /\ ~crashed
    /\ id \in NoteIds(cur.notes.list)
    /\ muts < MaxMutations
    /\ LET list == deleteNote(cur.notes.list, id)
           q1 == setValue(queue, "sync", list)
           q2 == Enq(q1, "sync", "sync", TRUE)
       IN  /\ Commit(q2, {"sync"})
           /\ Fits(queue')
           /\ slot' = setItem(slot, storage, list)
           /\ muts' = muts + 1
           /\ expected' = deleteNote(expected, id)
    /\ resetTimers' = resetTimers + 1
    /\ UNCHANGED <<debounce, storage, now, crashed, adds, cleared>>
    /\ last' = Step("delete", cur.notes.list, id, Str(<<>>))

\* A pulse-reset timer fires: setSync(false), outside any event.
ResetFire ==
    /\ ~crashed
    /\ resetTimers > 0
    /\ CountLane(queue, "default") < MaxDeferred
    /\ resetTimers' = resetTimers - 1
    /\ queue' = Enq(queue, "sync", "default", FALSE)
    /\ Fits(queue')
    /\ UNCHANGED <<cur, base, debounce, slot, storage, now, sends, body, crashed,
                   muts, expected, adds, cleared>>
    /\ last' = Other("reset")

\* ------------------------------------------------------------------ renders
\* React renders the updates made by timer callbacks (default lane).
RenderDefault ==
    /\ ~crashed
    /\ HasLane(queue, "default")
    /\ Commit(queue, {"default"})
    /\ UNCHANGED <<debounce, resetTimers, slot, storage, now, crashed, muts,
                   expected, adds, cleared>>
    /\ last' = Other("render")

\* React renders the transition once no more urgent update is pending.
RenderTransition ==
    /\ ~crashed
    /\ ~HasLane(queue, "default")
    /\ HasLane(queue, "transition")
    /\ Commit(queue, {"transition"})
    /\ UNCHANGED <<debounce, resetTimers, slot, storage, now, crashed, muts,
                   expected, adds, cleared>>
    /\ last' = Other("transition")

\* -------------------------------------------------------------- environment
Tick ==
    /\ now < StartClock + MaxTicks
    /\ now' = now + 1
    /\ UNCHANGED <<cur, base, queue, debounce, resetTimers, slot, storage,
                   sends, body, crashed, muts, expected, adds, cleared>>
    /\ last' = Other("tick")

\* onSubmit: the TypeError, the early return, the edit branch or the add
\* branch.
handleAddOrEdit == SubmitThrows \/ SubmitEmpty \/ SubmitAdd \/ SubmitEdit

Next ==
    \/ \E value \in KeyValues : handleInput(value)
    \/ DebounceFire
    \/ handleAddOrEdit
    \/ \E id \in NoteIds(cur.notes.list) : handleEdit(id)
    \/ \E id \in NoteIds(cur.notes.list) : handleDelete(id)
    \/ ResetFire
    \/ RenderDefault
    \/ RenderTransition
    \/ Tick

Spec == Init /\ [][Next]_vars

\* The event loop runs every timer callback that is due, and React renders
\* every update it has scheduled: a reset timer fires and a transition is
\* rendered however often other callbacks and renders come first.
\* It is checked for the sessions of a visit with storage denied, which
\* mounts with an empty list, and of a visit that finds the list of another
\* program.
LiveMounts ==
    { <<Item(JSONstringify(StoredNotes)), "denied">>,
      <<Item(ForeignText), "ok">> }

LiveInit == Init /\ <<slot, storage>> \in LiveMounts

LiveSpec ==
    /\ LiveInit
    /\ [][Next]_vars
    /\ SF_vars(ResetFire)
    /\ WF_vars(RenderDefault)
    /\ SF_vars(RenderTransition)
\* ------------------------------------------------------------- properties
\* No update waits for a render.
Quiescent == \A h \in Hooks : queue[h] = <<>>

\* The list of the latest setStoredValue call, rendered or not (the mounted
\* list before the first call).
LatestList ==
    IF queue.notes # <<>>
    THEN queue.notes[Len(queue.notes)].val.list
    ELSE cur.notes.list

Mutations == {"add", "edit", "delete"}

\* A value without the identities of its arrays and objects.
RECURSIVE Plain(_)
Plain(v) ==
    IF v.t = "arr"
    THEN [t |-> "arr", a |-> [i \in 1..Len(v.a) |-> Plain(v.a[i])], r |-> 0]
    ELSE IF v.t = "obj"
    THEN [t |-> "obj",
          o |-> [i \in 1..Len(v.o) |->
                    [k |-> v.o[i].k, v |-> Plain(v.o[i].v)]],
          r |-> 0]
    ELSE v

\* A text that is empty or made of white space only.
IsBlank(v) == v.t = "str" /\ \A i \in 1..Len(v.s) : IsTrimSpace(v.s[i])

\* C1: once every update is rendered, the note list is the mounted list with
\* every add, edit submit and delete applied in the order of their events.
C1_MutationsApplyInOrder ==
    Quiescent => cur.notes.list = expected

\* C2: once every update is rendered, each mutation of the session has had
\* exactly one fetch call, and the body of a call just made is the list that
\* the render holds.
C2_OneSendPerMutation ==
    /\ Quiescent => \A r \in 1..muts : sends[r + 1] = 1
    /\ last.sent => body = JSONstringify(cur.notes.list)

\* C3 as stated: a fetch call is made only by a commit that takes the
\* trigger flag from false to true.
C3_SendOnlyOnRisingFlag ==
    [][sends' # sends => (~cur.sync /\ cur'.sync)]_vars

\* C3 amended: a fetch call is made exactly by a commit that renders the flag
\* true and at which the flag or the list is not that of the previous commit:
\* the flag rose, or it was already true and the list changed. A commit that
\* keeps the flag true and the list the same makes no call.
C3_SendOnFlagOrListChange ==
    [][(sends' # sends) <=>
          (cur'.sync /\ (~cur.sync \/ cur'.notes.ref # cur.notes.ref))]_vars

\* Both mutations of the session had their fetch call and no reset timer has
\* fired: the second call was made with the flag already true.
C3_SendWhileFlagTrue ==
    /\ muts = 2 /\ resetTimers = 2
    /\ sends[2] = 1 /\ sends[3] = 1
    /\ cur.sync

\* C4: a non-blank submit in create mode stores the list it closed over with
\* one note appended: the earlier notes unchanged in place, the new note last
\* with the committed input as text and the clock value as id, an id no
\* earlier note has unless an earlier add had the same clock value.
C4_AddAppendsFreshNote ==
    last.op = "add" =>
        /\ Len(LatestList) = Len(last.prev) + 1
        /\ \A i \in 1..Len(last.prev) : LatestList[i] = last.prev[i]
        /\ LatestList[Len(LatestList)] = Note(Num(now), last.text)
        /\ last.text.t = "str" /\ ~IsBlank(last.text)
        /\ last.fresh =>
              \A i \in 1..Len(last.prev) : idOf(last.prev[i]) # Num(now)

C4_AddedToNonEmptyList ==
    last.op = "add" /\ last.fresh /\ last.prev # <<>>

\* C5: a non-blank submit in edit mode for id X stores a list of the same
\* length in which the entries with id X have the committed input as text and
\* every other entry is unchanged, all in the same positions.
C5_EditReplacesTextInPlace ==
    last.op = "edit" =>
        /\ Len(LatestList) = Len(last.prev)
        /\ \A i \in 1..Len(last.prev) :
              IF idOf(last.prev[i]) = last.id
              THEN /\ idOf(LatestList[i]) = last.id
                   /\ textOf(LatestList[i]) = last.text
              ELSE LatestList[i] = last.prev[i]

C5_EditedOneOfTwo ==
    /\ last.op = "edit"
    /\ Len(last.prev) = 2
    /\ idOf(last.prev[1]) # idOf(last.prev[2])
    /\ \E i \in 1..2 :
          idOf(last.prev[i]) = last.id /\ textOf(last.prev[i]) # last.text

\* C6: deleting id X stores a list without any entry of id X, shorter by
\* exactly one when X was present (by zero when absent), the other entries
\* unchanged and in their order.
C6_DeleteRemovesExactlyOne ==
    last.op = "delete" =>
        /\ last.id \notin NoteIds(LatestList)
        /\ IF last.id \in NoteIds(last.prev)
           THEN \E k \in 1..Len(last.prev) :
                   /\ idOf(last.prev[k]) = last.id
                   /\ LatestList = SubSeq(last.prev, 1, k - 1)
                                   \o SubSeq(last.prev, k + 1, Len(last.prev))
           ELSE LatestList = last.prev

\* Two notes with one id are stored in the session itself: the second add had
\* the clock value of the first.
TwinsAddedInSession ==
    /\ last.op = "add" /\ ~last.fresh
    /\ \E i \in 1..Len(last.prev) : idOf(last.prev[i]) = Num(now)

\* The list a mutation step produces from the list it closed over.
Produced ==
    IF last.op = "add" THEN addNote(last.prev, now, last.text)
    ELSE IF last.op = "edit" THEN editNote(last.prev, last.id, last.text)
    ELSE deleteNote(last.prev, last.id)

\* C7: with working storage, at the end of every add, edit submit and delete
\* the slot holds the serialization of the list that mutation produced, and
\* whenever no update waits for a render the slot holds the serialization of
\* the rendered list (before the first mutation: the text it was loaded from).
C7_SlotFollowsList ==
    storage = "ok" /\ ~crashed =>
        /\ last.op \in Mutations => slot = Item(JSONstringify(Produced))
        /\ Quiescent /\ muts > 0 => slot = Item(JSONstringify(cur.notes.list))
        /\ Quiescent =>
              Plain(loadStored(slot, storage)) = Plain(Arr(cur.notes.list))

C7_TwoMutationsRendered ==
    /\ storage = "ok" /\ muts = 2 /\ Quiescent
    /\ cur.notes.list # <<>>

\* C8: what a fresh mount would load from the slot after a successful save is
\* a note list equal to the saved one: same ids, texts and order.
C8_SaveThenLoad ==
    storage = "ok" /\ muts > 0 =>
        LET v == loadStored(slot, storage) IN
        /\ ~renderThrows(v)
        /\ Plain(v) = Plain(Arr(LatestList))

\* A saved list of two notes, one of them with a tab, a quote and a
\* backslash.
C8_SavedQuotedText ==
    /\ storage = "ok" /\ muts > 0
    /\ Len(LatestList) = 2
    /\ \E i \in 1..2 : textOf(LatestList[i]) = Str(<<Tab, Quote, Backslash>>)

\* A note: an object of a number id and a string text.
IsNoteValue(e) ==
    e.t = "obj" /\ Len(e.o) = 2 /\ idOf(e).t = "num" /\ textOf(e).t = "str"

IsNoteList(v) ==
    v.t = "arr" /\ \A i \in 1..Len(v.a) : IsNoteValue(v.a[i])

\* The slot holds the serialized form of a note list.
SlotHoldsNoteList(sl) ==
    /\ sl.has
    /\ JSONparse(sl.text).ok
    /\ IsNoteList(JSONparse(sl.text).v)

\* C9: a mount on a slot that is absent, empty, unreadable or no serialized
\* note list yields the empty list and raises no error.
C9_MountFallsBackToEmpty ==
    last.op = "mount" /\ ~(storage = "ok" /\ SlotHoldsNoteList(slot)) =>
        cur.notes.list = <<>> /\ ~crashed

\* C10: a mutation whose storage write throws still stores the mutated list
\* in memory, leaves the slot as it was, raises nothing, makes no later write,
\* and runs the rest of its handler: the pulse is raised and its reset timer
\* started, and a submit clears the input and leaves edit mode.
C10_WriteFailureIsSwallowed ==
    [][storage = "denied" =>
          /\ slot' = slot
          /\ ~crashed'
          /\ muts' # muts =>
                /\ last'.op \in Mutations
                /\ LatestList' = Produced'
                /\ resetTimers' = resetTimers + 1
                /\ queue'.sync # <<>> \/ cur'.sync
                /\ queue'.sync # <<>> => queue'.sync[Len(queue'.sync)].val
                /\ last'.op \in {"add", "edit"} =>
                      /\ queue'.input[Len(queue'.input)] =
                            [lane |-> "transition", val |-> Str(<<>>)]
                      /\ queue'.sync[Len(queue'.sync)] =
                            [lane |-> "transition", val |-> TRUE]
                /\ last'.op = "edit" =>
                      queue'.editId[Len(queue'.editId)] =
                            [lane |-> "transition", val |-> Null]]_vars

C10_EditedWithoutStorage ==
    /\ storage = "denied" /\ last.op = "edit"
    /\ last.id \in NoteIds(last.prev)
    /\ slot = Item(JSONstringify(StoredNotes))

\* C11: a submit while the committed input is empty or all blanks is rejected
\* and changes nothing, in create mode and in edit mode: the rendered and the
\* queued hook values (note list, editId, input, sync flag), the storage slot,
\* the timers and the fetch calls are as before, and no mutation is counted;
\* and only such a submit is rejected.
C11_BlankSubmitChangesNothing ==
    [][/\ (handleAddOrEdit /\ IsBlank(cur.input)) =>
             /\ last'.op = "reject"
             /\ UNCHANGED <<cur, base, queue, debounce, resetTimers, slot,
                            sends, body, muts, expected>>
       /\ last'.op = "reject" => IsBlank(cur.input)
       /\ last'.op \in {"add", "edit"} => ~IsBlank(cur.input)]_vars

\* A submit of a tab and a blank was rejected in edit mode.
C11_BlankRejectedInEditMode ==
    /\ last.op = "reject"
    /\ last.id # Null /\ last.text = Str(<<Tab, Space>>)
    /\ cur.editId = last.id /\ cur.input = Str(<<Tab, Space>>)

\* The timer of a keystroke with value v, as the only pending timer.
OnlyTimer(v) == <<[value |-> v, current |-> TRUE]>>

\* The latest update of the committed input is one made by a timer callback.
DebouncedLatest(Q) ==
    Q.input # <<>> /\ Q.input[Len(Q.input)].lane = "default"

\* C12: at most one debounce timer is pending; a keystroke leaves its own
\* timer as the only pending one (the earlier one is cancelled) and commits
\* nothing; every other step leaves the pending timer as it is, except the
\* firing, which ends it and makes one update of the committed input, to the
\* value of the last keystroke; and when that update is rendered as the
\* latest one the committed input is that value.
C12_DebounceLastKeystrokeWins ==
    [][/\ Len(debounce') <= 1
       /\ last'.op = "key" =>
             /\ debounce' = OnlyTimer(last'.text)
             /\ cur' = cur /\ queue' = queue
       /\ (last'.op # "key" /\ debounce' # debounce) =>
             /\ \E v \in KeyValues : debounce = OnlyTimer(Str(v))
             /\ debounce' = <<>>
             /\ queue' = Enq(queue, "input", "default", debounce[1].value)
             /\ cur' = cur
       /\ (DebouncedLatest(queue) /\ ~HasLane(queue', "default")) =>
             cur'.input = queue.input[Len(queue.input)].val]_vars

\* A keystroke cancelled the pending timer of an earlier keystroke that had
\* another value.
C12_KeystrokeCancelledTimer ==
    /\ last.op = "key"
    /\ last.cancelled # <<>> /\ last.cancelled[1] # last.text
    /\ debounce = OnlyTimer(last.text)

\* The value of the latest setSync call, rendered or not.
LatestSync ==
    IF queue.sync # <<>> THEN queue.sync[Len(queue.sync)].val ELSE cur.sync

\* The latest setSync call is that of a reset timer.
ResetLatest(Q) ==
    Q.sync # <<>> /\ Q.sync[Len(Q.sync)] = [lane |-> "default", val |-> FALSE]

\* C13: every mutation sets the flag true and starts one reset timer; no step
\* cancels a reset timer: a timer ends only by firing, which sets the flag
\* false, and once that update is rendered as the latest one the flag is
\* false whatever mutation came before it; when every timer has fired and
\* every update is rendered the flag is false, and it stays false until the
\* next mutation; and a flag that is true eventually becomes false.
C13_PulseAlwaysResets ==
    /\ [][/\ muts' # muts =>
                resetTimers' = resetTimers + 1 /\ LatestSync' = TRUE
          /\ resetTimers' < resetTimers =>
                /\ muts' = muts
                /\ resetTimers' = resetTimers - 1
                /\ queue' = Enq(queue, "sync", "default", FALSE)
          /\ (ResetLatest(queue) /\ ~HasLane(queue', "default")) => ~cur'.sync
          /\ (Quiescent /\ resetTimers = 0 /\ muts' = muts) => ~cur'.sync]_vars
    /\ []((Quiescent /\ resetTimers = 0) => ~cur.sync)
    /\ (cur.sync ~> ~cur.sync)

\* The reset of the first mutation has fired and is rendered while the reset
\* of the second is still to come: the flag is false before the second
\* pulse is over.
C13_ResetCutsLaterPulse ==
    /\ muts = 2 /\ resetTimers = 1 /\ Quiescent
    /\ ~cur.sync
    /\ sends[3] = 1

\* C14: once a non-blank submit is rendered the committed input is empty, and
\* it stays empty as long as no keystroke (and no edit request) is made after
\* that submit: a debounce timer already pending at the submit puts no text
\* back.
C14_InputStaysEmptyAfterSubmit ==
    (cleared /\ ~HasLane(queue, "transition")) => cur.input = Str(<<>>)

\* The number of setEditId(null) calls waiting in the queue.
NullCalls(Q) ==
    Cardinality({i \in 1..Len(Q.editId) :
                    Q.editId[i].lane # "none" /\ Q.editId[i].val = Null})

\* C15: editId is null at mount. The rendered editId becomes another non-null
\* value only in an edit request for a note of the rendered list, which
\* renders that note's id as editId and that note's text as the committed
\* input. Only a non-blank submit in edit mode calls setEditId(null), and the
\* rendered editId returns to null only when such a call is rendered. A
\* non-blank submit with editId null stores the list it closed over with one
\* note appended and every earlier note as it was; with editId non-null it
\* stores a list of the same length and the same ids in which only notes of
\* that id have another text.
C15_EditModeMachine ==
    /\ [](last.op = "mount" => cur.editId = Null)
    /\ [][/\ (cur'.editId # cur.editId /\ cur'.editId # Null) =>
                \E id \in NoteIds(cur.notes.list) :
                    /\ handleEdit(id)
                    /\ cur'.editId = id
                    /\ cur'.input = textOf(findNote(cur.notes.list, id))
          /\ NullCalls(queue') > NullCalls(queue) =>
                last'.op = "edit" /\ cur.editId # Null /\ ~IsBlank(cur.input)
          /\ (cur.editId # Null /\ cur'.editId = Null) =>
                NullCalls(queue) > 0 /\ NullCalls(queue') = 0
          /\ last'.op = "add" =>
                /\ cur.editId = Null
                /\ NullCalls(queue') = NullCalls(queue)
                /\ Len(LatestList') = Len(cur.notes.list) + 1
                /\ \A i \in 1..Len(cur.notes.list) :
                      LatestList'[i] = cur.notes.list[i]
          /\ last'.op = "edit" =>
                /\ cur.editId # Null
                /\ NullCalls(queue') = NullCalls(queue) + 1
                /\ Len(LatestList') = Len(cur.notes.list)
                /\ \A i \in 1..Len(cur.notes.list) :
                      /\ idOf(LatestList'[i]) = idOf(cur.notes.list[i])
                      /\ textOf(LatestList'[i]) # textOf(cur.notes.list[i]) =>
                            idOf(cur.notes.list[i]) = cur.editId]_vars

\* A first edit request loaded a note, the text was retyped and submitted, and
\* a second edit request has loaded the other note while the submit waits
\* for its render.
C15_EditRequestedAfterEditSubmit ==
    /\ muts = 1 /\ NullCalls(queue) = 1
    /\ Len(cur.notes.list) = 2
    /\ cur.editId = idOf(cur.notes.list[2])
    /\ cur.editId # idOf(cur.notes.list[1])
    /\ cur.input = textOf(cur.notes.list[2])
    /\ textOf(LatestList[1]) # textOf(cur.notes.list[1])

\* C16: a delete changes the note list, the slot and the pulse only: the
\* rendered and the queued editId and committed input, the debounce timer and
\* the pending flag are as before, also when the deleted id is editId.
C16_DeleteLeavesEditState ==
    [][last'.op = "delete" =>
          /\ cur'.editId = cur.editId /\ queue'.editId = queue.editId
          /\ cur'.input = cur.input /\ queue'.input = queue.input
          /\ cur'.isPending = cur.isPending
          /\ queue'.isPending = queue.isPending
          /\ debounce' = debounce
          /\ cur'.notes.list = deleteNote(cur.notes.list, last'.id)
          /\ cur'.sync /\ resetTimers' = resetTimers + 1]_vars

\* The note under edit was deleted: editId names an id no note has.
C16_DanglingEditId ==
    /\ last.op = "delete"
    /\ cur.editId = last.id
    /\ cur.editId \notin NoteIds(cur.notes.list)
    /\ cur.input # Str(<<>>)

\* The latest update of hook h is val, made in a transition.
LatestInTransition(Q, h, val) ==
    Q[h] # <<>> /\ Q[h][Len(Q[h])] = [lane |-> "transition", val |-> val]

\* C17: a non-blank submit while editId is an id that no note of the list
\* has stores the list as it was (same notes, same order, none added), and
\* still calls setEditId(null), setInput("") and setSync(true) and starts a
\* reset timer; once these are rendered as the latest updates, editId is
\* null, the committed input is empty and the flag is true.
C17_SubmitWithDanglingEditId ==
    [][/\ (last'.op = "edit" /\ cur.editId \notin NoteIds(cur.notes.list)) =>
             /\ LatestList' = cur.notes.list
             /\ LatestInTransition(queue', "editId", Null)
             /\ LatestInTransition(queue', "input", Str(<<>>))
             /\ LatestInTransition(queue', "sync", TRUE)
             /\ resetTimers' = resetTimers + 1
             /\ muts' = muts + 1
       /\ (/\ LatestInTransition(queue, "editId", Null)
           /\ LatestInTransition(queue, "input", Str(<<>>))
           /\ LatestInTransition(queue, "sync", TRUE)
           /\ ~HasLane(queue', "transition")) =>
             cur'.editId = Null /\ cur'.input = Str(<<>>) /\ cur'.sync]_vars

\* The note under edit was deleted and the typed text then submitted.
C17_SubmittedAfterDeletingEdited ==
    /\ last.op = "edit"
    /\ last.prev # <<>>
    /\ last.id \notin NoteIds(last.prev)
    /\ LatestList = last.prev

\* The number of fetch calls made since mount.
RECURSIVE SumSeq(_)
SumSeq(q) == IF q = <<>> THEN 0 ELSE Head(q) + SumSeq(Tail(q))

\* C18: a fetch call is made only by a commit that renders the flag true; the
\* mount makes none, whatever list it loads; a keystroke, an edit request, a
\* rejected submit, the firing of a reset timer and the commit that renders
\* the flag false make none; and the calls never outnumber the mutations.
C18_SendsOnlyWhileFlagTrue ==
    /\ [](last.op = "mount" => SumSeq(sends) = 0)
    /\ [](SumSeq(sends) <= muts)
    /\ [][/\ sends' # sends => cur'.sync
          /\ last'.op \in {"key", "reject"} => sends' = sends
          /\ (\E id \in NoteIds(cur.notes.list) : handleEdit(id)) =>
                sends' = sends
          /\ resetTimers' < resetTimers => sends' = sends
          /\ (cur.sync /\ ~cur'.sync) => sends' = sends]_vars

\* Both mutations of the session had their fetch call, and both resets have
\* fired and are rendered.
C18_AllSentAndReset ==
    /\ muts = 2 /\ SumSeq(sends) = 2
    /\ resetTimers = 0 /\ Quiescent
    /\ ~cur.sync

====
